---- MODULE Spec2Model ----
(***************************************************************************)
(* A model of mailarchiver.py: the header parser, the date normaliser, the *)
(* chronological sorter, the collision-safe writer and the batch loop of   *)
(* main().                                                                 *)
(*                                                                         *)
(* Text (a Python str) is a sequence of code points, so that the string    *)
(* operations of the source (split, rstrip, startswith, format, the        *)
(* newline translation of text-mode files) are computed, not assumed.      *)
(* A file write followed by a close is one step.                           *)
(***************************************************************************)
EXTENDS Integers, Sequences, FiniteSets, TLC

VARIABLES
    fs,           \* the files on disk: full path -> the characters stored
    dirs,         \* the directories that exist
    unreadable,   \* the paths whose open(path, "r") raises PermissionError
    log,          \* history: one record per call of save_email_to_text_file
    seed,         \* history: how many filler contents were written to the
                  \* tracked group before the first logged call
    input_blob,   \* the input file's characters, None once it is deleted
    saved_db,     \* email_db.yaml
    email_db,     \* main's email_db
    emails,       \* main's emails
    it_list,      \* the list object the for statement iterates
    it_pos,       \* the place of the current email in it_list
    emails_processed,
    batch,
    pc,           \* where main is
    run,          \* history: the number of the current run of main
    orig,         \* history: the fragments of the first run's input file
    rejected,     \* history: the fragments this run rejected
    quit_typed,   \* history: the prompt at which the operator typed quit
    inspect_arg,  \* the argument of a call of inspect_email_text
    parsed,       \* what the call returned
    sort_arg,     \* the argument of a call of sort_emails_by_date
    sorted_emails,\* what the call returned
    date_arg,     \* the argument of a call of datetime_from_string
    date_out,     \* what the call returned
    cur_suffix,   \* the writer's suffix as next_suffix steps it
    allocated     \* history: the suffixes met so far, in order

wvars == <<fs, dirs, unreadable, log, seed>>
mvars == <<input_blob, saved_db, email_db, emails, it_list, it_pos,
           emails_processed, batch, pc, run, orig, rejected, quit_typed>>
ivars == <<inspect_arg, parsed>>
pvars == <<sort_arg, sorted_emails, date_arg, date_out, cur_suffix, allocated>>
vars == <<wvars, mvars, ivars, pvars>>

-----------------------------------------------------------------------------
(* Characters and Python's str primitives                                  *)

\* Python's None where a str is expected: no str holds the code point -1.
None == <<-1>>

LF == <<10>>      \* "\n"
CR == <<13>>      \* "\r"
SEP == <<47>>     \* os.sep, "/"

\* str.isspace for the code points below 128
IsSpace(c) == c \in {9, 10, 11, 12, 13, 28, 29, 30, 31, 32}

\* s.startswith(p)
startswith(s, p) == Len(s) >= Len(p) /\ SubSeq(s, 1, Len(p)) = p

\* s.rstrip()
RECURSIVE rstrip(_)
rstrip(s) ==
    IF s = <<>> THEN s
    ELSE IF IsSpace(s[Len(s)]) THEN rstrip(SubSeq(s, 1, Len(s) - 1))
    ELSE s

\* What f.read() returns for a text-mode file (newline=None) holding the
\* characters s: "\r\n" and a lone "\r" both arrive as "\n".
RECURSIVE universal_newlines(_)
universal_newlines(s) ==
    IF s = <<>> THEN <<>>
    ELSE IF s[1] = 13
         THEN IF Len(s) >= 2 /\ s[2] = 10
              THEN LF \o universal_newlines(SubSeq(s, 3, Len(s)))
              ELSE LF \o universal_newlines(Tail(s))
         ELSE <<s[1]>> \o universal_newlines(Tail(s))

\* os.path.join(filepath, filename) for a relative filename
os_path_join(filepath, filename) ==
    IF filepath = <<>> THEN filename
    ELSE IF filepath[Len(filepath)] = 47 THEN filepath \o filename
    ELSE filepath \o SEP \o filename

\* os.path.isfile(path), files being the paths of the files that exist
os_path_isfile(files, path) == path \in files

\* with open(path, "w") as f: f.write(text)   (POSIX: "\n" is written as is)
write_file(fsys, path, text) == (path :> text) @@ fsys

\* s.replace(old, new): every occurrence, left to right, not overlapping
RECURSIVE replace(_, _, _)
replace(s, old, new) ==
    IF Len(s) < Len(old) THEN s
    ELSE IF startswith(s, old)
    THEN new \o replace(SubSeq(s, Len(old) + 1, Len(s)), old, new)
    ELSE <<s[1]>> \o replace(Tail(s), old, new)

\* s.lstrip() and s.strip()
RECURSIVE lstrip(_)
lstrip(s) ==
    IF s = <<>> THEN s
    ELSE IF IsSpace(s[1]) THEN lstrip(Tail(s))
    ELSE s

strip(s) == lstrip(rstrip(s))

\* s.lower() for the code points below 128
lower(s) == [i \in 1..Len(s) |-> IF s[i] \in 65..90 THEN s[i] + 32 ELSE s[i]]

\* The index of the first c in s, 0 when there is none
IndexOf(s, c) ==
    IF \E i \in 1..Len(s) : s[i] = c
    THEN CHOOSE i \in 1..Len(s) : s[i] = c /\ \A j \in 1..(i - 1) : s[j] # c
    ELSE 0

\* s.split(sep) for a one-character sep: Len(s.split(sep)) is one more than
\* the number of sep in s
RECURSIVE split(_, _)
split(s, sep) ==
    LET i == IndexOf(s, sep)
    IN IF i = 0 THEN <<s>>
       ELSE <<SubSeq(s, 1, i - 1)>> \o split(SubSeq(s, i + 1, Len(s)), sep)

\* sep.join(parts)
RECURSIVE join(_, _)
join(parts, sep) ==
    IF parts = <<>> THEN <<>>
    ELSE IF Len(parts) = 1 THEN parts[1]
    ELSE parts[1] \o <<sep>> \o join(Tail(parts), sep)

\* StringIO.readline() on the unread characters: the line with its "\n",
\* and what stays unread
readline(unread) ==
    LET i == IndexOf(unread, 10)
    IN IF i = 0 THEN [line |-> unread, unread |-> <<>>]
       ELSE [line |-> SubSeq(unread, 1, i),
             unread |-> SubSeq(unread, i + 1, Len(unread))]

\* StringIO.readlines() on the unread characters
RECURSIVE readlines(_)
readlines(unread) ==
    IF unread = <<>> THEN <<>>
    ELSE LET r == readline(unread) IN <<r.line>> \o readlines(r.unread)

-----------------------------------------------------------------------------
(* inspect_email_text                                                      *)

required_fields == <<"From", "Subject", "Date">>
optional_fields == <<"To", "Reply-To">>

\* field + ": "
start_string(field) ==
    CASE field = "From" -> <<70, 114, 111, 109, 58, 32>>
      [] field = "Subject" -> <<83, 117, 98, 106, 101, 99, 116, 58, 32>>
      [] field = "Date" -> <<68, 97, 116, 101, 58, 32>>
      [] field = "To" -> <<84, 111, 58, 32>>
      [] field = "Reply-To" -> <<82, 101, 112, 108, 121, 45, 84, 111, 58, 32>>

\* for field in required_fields + optional_fields: ... data[field] = ...
RECURSIVE ScanFields(_, _, _)
ScanFields(data, line, fields) ==
    IF fields = <<>> THEN data
    ELSE LET field == Head(fields)
             hit == startswith(line, start_string(field))
             value == SubSeq(line, Len(start_string(field)) + 1, Len(line))
         IN ScanFields(IF hit THEN (field :> value) @@ data ELSE data,
                       line, Tail(fields))

\* The while True loop over the header lines: [data, unread] at its break
RECURSIVE HeaderLoop(_, _)
HeaderLoop(data, unread) ==
    LET r == readline(unread)
        line == rstrip(r.line)
    IN IF line = <<>> THEN [data |-> data, unread |-> r.unread]
       ELSE HeaderLoop(
                ScanFields(data, line, required_fields \o optional_fields),
                r.unread)

\* The data dict before the loop
InitialData == ("Subject" :> <<>>) @@ ("To" :> <<>>)

missing_fields_of(data) == SelectSeq(required_fields, LAMBDA f : f \notin DOMAIN data)

\* The call's outcome: [rejected, missing_fields, data, Body].  rejected
\* stands for "return None"; missing_fields is the list it prints.
inspect_email_text(text) ==
    LET h == HeaderLoop(InitialData, text)
        missing_fields == missing_fields_of(h.data)
    IN IF missing_fields # <<>>
       THEN [rejected |-> TRUE, missing_fields |-> missing_fields,
             data |-> h.data, Body |-> <<>>]
       ELSE \* line == "" holds here: one more line is read and dropped
            [rejected |-> FALSE, missing_fields |-> <<>>,
             data |-> h.data,
             Body |-> readlines(readline(h.unread).unread)]

-----------------------------------------------------------------------------
(* find_email                                                              *)

\* [\w\.-] for the code points below 128
IsAddrChar(c) ==
    c \in 48..57 \/ c \in 65..90 \/ c \in 97..122 \/ c \in {95, 46, 45}

\* re.search(r"[\w\.-]+@[\w\.-]+", line): the leftmost "@" with an address
\* character on both sides, with the runs of address characters around it
find_email(line) ==
    LET ok(i) == /\ line[i] = 64 /\ i > 1 /\ i < Len(line)
                 /\ IsAddrChar(line[i - 1]) /\ IsAddrChar(line[i + 1])
    IN IF ~\E i \in 1..Len(line) : ok(i) THEN <<>>
       ELSE LET at == CHOOSE i \in 1..Len(line) :
                          ok(i) /\ \A j \in 1..(i - 1) : ~ok(j)
                from == CHOOSE a \in 1..(at - 1) :
                          /\ \A k \in a..(at - 1) : IsAddrChar(line[k])
                          /\ (a = 1 \/ ~IsAddrChar(line[a - 1]))
                to == CHOOSE b \in (at + 1)..Len(line) :
                          /\ \A k \in (at + 1)..b : IsAddrChar(line[k])
                          /\ (b = Len(line) \/ ~IsAddrChar(line[b + 1]))
            IN lower(SubSeq(line, from, to))

-----------------------------------------------------------------------------
(* datetime_from_string, get_email_datetime, get_email_date_string         *)

tz_abbrevs ==
    << <<80, 83, 84>>, <<80, 68, 84>>, <<77, 83, 84>>, <<77, 68, 84>>,
       <<67, 83, 84>>, <<67, 68, 84>>, <<69, 83, 84>>, <<69, 68, 84>>,
       <<71, 77, 84>>, <<85, 84, 67>> >>

\* for tz in tz_abbrevs: cleaned = cleaned.replace(" " + tz, "").replace(tz, "")
RECURSIVE StripTz(_, _)
StripTz(cleaned, tzs) ==
    IF tzs = <<>> THEN cleaned
    ELSE StripTz(replace(replace(cleaned, <<32>> \o Head(tzs), <<>>),
                         Head(tzs), <<>>),
                 Tail(tzs))

IsDigit(c) == c \in 48..57

\* int(s) for a string of digits
RECURSIVE Number(_)
Number(s) ==
    IF s = <<>> THEN 0 ELSE 10 * Number(SubSeq(s, 1, Len(s) - 1)) + (s[Len(s)] - 48)

IsLeap(y) == (y % 4 = 0 /\ y % 100 # 0) \/ y % 400 = 0

DaysInMonth(y, m) ==
    IF m = 2 THEN (IF IsLeap(y) THEN 29 ELSE 28)
    ELSE IF m \in {4, 6, 9, 11} THEN 30 ELSE 31

NaT == [kind |-> "NaT", y |-> 0, m |-> 0, d |-> 0, H |-> 0, M |-> 0, S |-> 0]
RaisedValueError ==
    [kind |-> "ValueError", y |-> 0, m |-> 0, d |-> 0, H |-> 0, M |-> 0, S |-> 0]

\* " at "
AtWord == <<32, 97, 116, 32>>

\* pd.to_datetime(s) on the strings the model feeds it: "" is NaT;
\* "YYYY-MM-DD" and "YYYY-MM-DD at HH:MM:SS" are timestamps when the fields
\* are a calendar date and a clock time; everything else raises ValueError.
pd_to_datetime(s) ==
    LET digits(a, b) == \A k \in a..b : IsDigit(s[k])
        dateOk == /\ Len(s) >= 10
                  /\ digits(1, 4) /\ s[5] = 45 /\ digits(6, 7) /\ s[8] = 45
                  /\ digits(9, 10)
        timeOk == /\ Len(s) = 22
                  /\ SubSeq(s, 11, 14) = AtWord
                  /\ digits(15, 16) /\ s[17] = 58 /\ digits(18, 19)
                  /\ s[20] = 58 /\ digits(21, 22)
        y == Number(SubSeq(s, 1, 4))
        m == Number(SubSeq(s, 6, 7))
        d == Number(SubSeq(s, 9, 10))
        H == IF Len(s) = 10 THEN 0 ELSE Number(SubSeq(s, 15, 16))
        M == IF Len(s) = 10 THEN 0 ELSE Number(SubSeq(s, 18, 19))
        S == IF Len(s) = 10 THEN 0 ELSE Number(SubSeq(s, 21, 22))
    IN IF s = <<>> THEN NaT
       ELSE IF dateOk /\ (Len(s) = 10 \/ timeOk)
               /\ m \in 1..12 /\ d \in 1..DaysInMonth(y, m)
               /\ H \in 0..23 /\ M \in 0..59 /\ S \in 0..59
       THEN [kind |-> "Timestamp", y |-> y, m |-> m, d |-> d,
             H |-> H, M |-> M, S |-> S]
       ELSE RaisedValueError

\* No day is added
PlusNoDay(dt) == dt

\* dt + pd.Timedelta(1, unit="d")
PlusOneDay(dt) ==
    IF dt.kind # "Timestamp" THEN dt
    ELSE IF dt.d < DaysInMonth(dt.y, dt.m) THEN [dt EXCEPT !.d = dt.d + 1]
    ELSE IF dt.m < 12 THEN [dt EXCEPT !.d = 1, !.m = dt.m + 1]
    ELSE [dt EXCEPT !.d = 1, !.m = 1, !.y = dt.y + 1]

\* "at 24:" and "at 00:"
At24 == <<97, 116, 32, 50, 52, 58>>
At00 == <<97, 116, 32, 48, 48, 58>>

\* kind "ValueError" stands for the exception leaving the function
datetime_from_string(datestring) ==
    LET cleaned == strip(StripTz(datestring, tz_abbrevs))
        dt == pd_to_datetime(cleaned)
    IN IF dt.kind # "ValueError" THEN dt
       ELSE LET again == pd_to_datetime(replace(cleaned, At24, At00))
            IN IF again.kind = "ValueError" THEN again ELSE PlusOneDay(again)

\* "Date: "
DatePrefix == <<68, 97, 116, 101, 58, 32>>

\* The for loop over email_text.split("\n"): the value returned as dt, with
\* kind "None" for (None, error)
NoDatetime ==
    [kind |-> "None", y |-> 0, m |-> 0, d |-> 0, H |-> 0, M |-> 0, S |-> 0]

RECURSIVE DateOfLines(_)
DateOfLines(lines) ==
    IF lines = <<>> THEN NoDatetime
    ELSE LET line == rstrip(Head(lines))
         IN IF line = <<>> THEN NoDatetime
            ELSE IF startswith(line, DatePrefix)
            THEN LET dt == datetime_from_string(SubSeq(line, 7, Len(line)))
                 IN IF dt.kind = "ValueError" THEN NoDatetime ELSE dt
            ELSE DateOfLines(Tail(lines))

get_email_datetime(email_text) == DateOfLines(split(email_text, 10))

\* Two decimal digits, and four
Digits2(n) == <<48 + (n \div 10), 48 + (n % 10)>>
Digits4(n) == Digits2(n \div 100) \o Digits2(n % 100)

\* dt.strftime("%Y %m %d")
strftime(dt) == Digits4(dt.y) \o <<32>> \o Digits2(dt.m) \o <<32>> \o Digits2(dt.d)

\* The call's outcome: [raised, prompted, date_string].  reply is what the
\* operator types when input() is reached; NaT.strftime raises ValueError
\* outside the try.
get_email_date_string(data, reply) ==
    LET dt == datetime_from_string(data["Date"])
    IN IF dt.kind = "ValueError"
       THEN [raised |-> FALSE, prompted |-> TRUE, date_string |-> reply]
       ELSE IF dt.kind = "NaT"
       THEN [raised |-> TRUE, prompted |-> FALSE, date_string |-> <<>>]
       ELSE [raised |-> FALSE, prompted |-> FALSE, date_string |-> strftime(dt)]

-----------------------------------------------------------------------------
(* sort_emails_by_date                                                     *)

\* a < b on pandas timestamps: every comparison with NaT is False
Before(a, b) ==
    /\ a.kind = "Timestamp" /\ b.kind = "Timestamp"
    /\ \/ a.y < b.y
       \/ a.y = b.y /\ a.m < b.m
       \/ a.y = b.y /\ a.m = b.m /\ a.d < b.d
       \/ a.y = b.y /\ a.m = b.m /\ a.d = b.d /\ a.H < b.H
       \/ a.y = b.y /\ a.m = b.m /\ a.d = b.d /\ a.H = b.H /\ a.M < b.M
       \/ a.y = b.y /\ a.m = b.m /\ a.d = b.d /\ a.H = b.H /\ a.M = b.M
          /\ a.S < b.S

\* list.sort(key=...) on a list of fewer than 64 (dt, email) pairs, as
\* CPython does it: the leading run is found (and reversed when strictly
\* descending), then the rest is inserted by binary search.
RECURSIVE RunLength(_, _, _)
RunLength(xs, n, descending) ==
    IF n >= Len(xs) THEN n
    ELSE IF Before(xs[n + 1].dt, xs[n].dt) = descending
    THEN RunLength(xs, n + 1, descending)
    ELSE n

Reverse(xs) == [i \in 1..Len(xs) |-> xs[Len(xs) + 1 - i]]

\* The place of pivot among xs[l+1 .. r] (0-based l, r as in binarysort)
RECURSIVE BinaryPlace(_, _, _, _)
BinaryPlace(xs, pivot, l, r) ==
    IF l >= r THEN l
    ELSE LET p == l + ((r - l) \div 2)
         IN IF Before(pivot.dt, xs[p + 1].dt)
            THEN BinaryPlace(xs, pivot, l, p)
            ELSE BinaryPlace(xs, pivot, p + 1, r)

RECURSIVE BinarySort(_, _)
BinarySort(xs, start) ==
    IF start >= Len(xs) THEN xs
    ELSE LET pivot == xs[start + 1]
             l == BinaryPlace(xs, pivot, 0, start)
         IN BinarySort(SubSeq(xs, 1, l) \o <<pivot>>
                           \o SubSeq(xs, l + 1, start)
                           \o SubSeq(xs, start + 2, Len(xs)),
                       start + 1)

list_sort(xs) ==
    IF Len(xs) < 2 THEN xs
    ELSE LET descending == Before(xs[2].dt, xs[1].dt)
             n == RunLength(xs, 2, descending)
             lead == IF descending
                     THEN Reverse(SubSeq(xs, 1, n))
                              \o SubSeq(xs, n + 1, Len(xs))
                     ELSE xs
         IN BinarySort(lead, n)

sort_emails_by_date(es) ==
    LET dts == [i \in 1..Len(es) |->
                   [dt |-> get_email_datetime(es[i]), email |-> es[i]]]
        dated_emails == SelectSeq(dts, LAMBDA x : x.dt.kind # "None")
        undated_emails == SelectSeq(dts, LAMBDA x : x.dt.kind = "None")
        sorted == list_sort(dated_emails)
    IN [i \in 1..Len(sorted) |-> sorted[i].email]
       \o [i \in 1..Len(undated_emails) |-> undated_emails[i].email]

-----------------------------------------------------------------------------
(* save_email_to_text_file                                                 *)

\* " email.txt"
EmailTxt == <<32, 101, 109, 97, 105, 108, 46, 116, 120, 116>>

make_suffixed_filename(name, date_string, suffix) ==
    name \o <<32>> \o date_string \o suffix \o EmailTxt

\* The single letters end at y: z is never handed out
next_suffix_skips_z(suffix) ==
    IF Len(suffix) = 1
    THEN IF suffix[1] >= 121 THEN <<97, 97>> ELSE <<suffix[1] + 1>>
    ELSE IF suffix[2] = 122
         THEN IF suffix[1] = 122 THEN None ELSE <<suffix[1] + 1, 97>>
         ELSE <<suffix[1], suffix[2] + 1>>

next_suffix(suffix) ==
    IF Len(suffix) = 1
    THEN IF suffix = <<122>> THEN <<97, 97>> ELSE <<suffix[1] + 1>>
    ELSE LET first == suffix[1]
             second == suffix[2]
         IN IF second = 122
            THEN IF first = 122 THEN None ELSE <<first + 1, 97>>
            ELSE <<first, second + 1>>

\* An existing file is never found to hold what is being written
safe_read_file_fails(fsys, unr, path) == None

\* The file is read although reading it is denied
safe_read_file_reads_denied(fsys, unr, path) == universal_newlines(fsys[path])

safe_read_file(fsys, unr, path) ==
    IF path \in unr THEN None ELSE universal_newlines(fsys[path])

\* One pass of the body of "while suffix is not None".  st.ret is "" while
\* the loop is running.
SuffixLoopBody(st, fsys, files, unr, call) ==
    LET suffixed_filename ==
            make_suffixed_filename(call.name, call.date_string, st.suffix)
        suffixed_path == os_path_join(call.filepath, suffixed_filename)
    IN IF ~os_path_isfile(files, suffixed_path)
       THEN [st EXCEPT !.ret = "Saved", !.filename = suffixed_filename]
       ELSE LET suffixed_content == safe_read_file(fsys, unr, suffixed_path)
            IN IF suffixed_content # None
                  /\ suffixed_content = call.email_content
               THEN [st EXCEPT !.ret = "Identical",
                               !.filename = suffixed_filename]
               ELSE [st EXCEPT !.suffix = next_suffix(st.suffix)]

\* Number of passes the loop is given; it ends long before (see LoopEnded).
LoopFuel == 1024

\* The while loop: up to n passes from st, stopping at a return or at
\* suffix = None.  Halving n keeps the evaluation shallow.
RECURSIVE SuffixLoop(_, _, _, _, _, _)
SuffixLoop(st, n, fsys, files, unr, call) ==
    IF st.ret # "" \/ st.suffix = None THEN st
    ELSE IF n = 1 THEN SuffixLoopBody(st, fsys, files, unr, call)
    ELSE SuffixLoop(SuffixLoop(st, n \div 2, fsys, files, unr, call),
                    n - (n \div 2), fsys, files, unr, call)

\* The call's outcome: [ret, filename, fs, dirs].  ret is "Saved" ("Saved as
\* '<filename>'"), "Identical" ("Identical file already exists:
\* '<filename>'"), "ValueError" (suffixes exhausted) or "FileNotFoundError"
\* (os.makedirs("")).
save_email_overwrites(fsys, ds, unr, call) ==
    LET base_filename ==
            make_suffixed_filename(call.name, call.date_string, <<>>)
        full_path == os_path_join(call.filepath, base_filename)
    IN [ret |-> "Saved", filename |-> base_filename,
        fs |-> write_file(fsys, full_path, call.email_content),
        dirs |-> ds \cup {call.filepath}]

save_email_to_text_file(fsys, ds, unr, call) ==
    LET base_filename ==
            make_suffixed_filename(call.name, call.date_string, <<>>)
        full_path == os_path_join(call.filepath, base_filename)
        ds1 == ds \cup {call.filepath}
        files == DOMAIN fsys
    IN IF call.filepath \notin ds /\ call.filepath = <<>>
       THEN [ret |-> "FileNotFoundError", filename |-> <<>>,
             fs |-> fsys, dirs |-> ds]
       ELSE IF ~os_path_isfile(files, full_path)
       THEN [ret |-> "Saved", filename |-> base_filename,
             fs |-> write_file(fsys, full_path, call.email_content),
             dirs |-> ds1]
       ELSE LET existing_content == safe_read_file(fsys, unr, full_path)
            IN IF existing_content # None
                  /\ existing_content = call.email_content
               THEN [ret |-> "Identical", filename |-> base_filename,
                     fs |-> fsys, dirs |-> ds1]
               ELSE LET st == SuffixLoop(
                                [suffix |-> <<98>>, ret |-> "",
                                 filename |-> <<>>],
                                LoopFuel, fsys, files, unr, call)
                    IN IF st.ret = "Saved"
                       THEN [ret |-> "Saved", filename |-> st.filename,
                             fs |-> write_file(
                                 fsys,
                                 os_path_join(call.filepath, st.filename),
                                 call.email_content),
                             dirs |-> ds1]
                       ELSE IF st.ret = "Identical"
                       THEN [ret |-> "Identical", filename |-> st.filename,
                             fs |-> fsys, dirs |-> ds1]
                       ELSE [ret |-> "ValueError", filename |-> <<>>,
                             fs |-> fsys, dirs |-> ds1]

-----------------------------------------------------------------------------
(* The values of the variables a specification does not use                *)

EmptyDb == [a \in {} |-> <<>>]

MainIdle ==
    /\ input_blob = None /\ saved_db = EmptyDb /\ email_db = EmptyDb
    /\ emails = <<>> /\ it_list = <<>> /\ it_pos = 0
    /\ emails_processed = <<>> /\ batch = 0 /\ pc = "idle" /\ run = 0
    /\ orig = {} /\ rejected = {} /\ quit_typed = ""

NotCalled == [called |-> FALSE, out |-> <<>>]

InspectIdle == inspect_arg = <<>> /\ parsed = NotCalled

SortIdle == sort_arg = <<>> /\ sorted_emails = NotCalled

DateIdle == date_arg = <<>> /\ date_out = NotCalled

SuffixIdle == cur_suffix = <<>> /\ allocated = <<>>

WriterIdle ==
    /\ fs = [p \in {} |-> <<>>] /\ dirs = {} /\ unreadable = {}
    /\ log = <<>> /\ seed = 0

-----------------------------------------------------------------------------
(* The writer on its own: calls with arguments drawn from small sets       *)

MaxCalls == 3

\* "/p/Al"
DirAl == <<47, 112, 47, 65, 108>>
\* "Al"
NameAl == <<65, 108>>
\* "2008 07 18"
Day18 == <<50, 48, 48, 56, 32, 48, 55, 32, 49, 56>>
\* "2008 07 18b": as a date string it collides with suffix b of Day18
Day18b == Day18 \o <<98>>

\* "x", "x\ry", "x\ny"
Contents == {<<120>>, <<120, 13, 121>>, <<120, 10, 121>>}

\* The i-th filler content: one character, different for every i and from
\* every member of Contents.
Filler(i) == <<1000 + i>>

TrackedCall(content) ==
    [filepath |-> DirAl, name |-> NameAl, date_string |-> Day18,
     email_content |-> content]

EmptyFs == [p \in {} |-> <<>>]

\* The file system after writing Filler(lo) .. Filler(hi) to the tracked
\* group by calls of save_email_to_text_file, in this order.
RECURSIVE Prefill(_, _, _)
Prefill(fsys, lo, hi) ==
    IF lo > hi THEN fsys
    ELSE IF lo = hi
    THEN save_email_to_text_file(fsys, {DirAl}, {}, TrackedCall(Filler(lo))).fs
    ELSE LET mid == (lo + hi) \div 2
             left == Prefill(fsys, lo, mid)
         IN \* the first half is evaluated before the second is entered
            IF Cardinality(DOMAIN left) >= 0
            THEN Prefill(left, mid + 1, hi) ELSE left

\* The same file system, built directly: Filler(i) stored under the i-th
\* name, the names following each other by next_suffix.  st is
\* [fs, suffix, i], suffix being the suffix of the next free name.
SeedStep(st) ==
    [fs |-> write_file(st.fs,
                       os_path_join(DirAl, make_suffixed_filename(
                           NameAl, Day18, st.suffix)),
                       Filler(st.i)),
     suffix |-> IF st.suffix = <<>> THEN <<98>> ELSE next_suffix(st.suffix),
     i |-> st.i + 1]

RECURSIVE SeedWalk(_, _)
SeedWalk(st, n) ==
    IF n = 0 THEN st
    ELSE IF n = 1 THEN SeedStep(st)
    ELSE LET left == SeedWalk(st, n \div 2)
         IN IF left.i >= 0 THEN SeedWalk(left, n - (n \div 2)) ELSE left

SeededFs(k) == SeedWalk([fs |-> EmptyFs, suffix |-> <<>>, i |-> 1], k).fs

\* Numbers of files the tracked group holds at the start: none, around the
\* step from z to aa, and one short of the end of the suffixes.
SeedSizes == {0, 25, 26, 701}

InitWriter ==
    /\ seed \in SeedSizes
    /\ fs = SeededFs(seed)
    /\ dirs = IF seed = 0 THEN {} ELSE {DirAl}
    /\ unreadable = {}
    /\ log = <<>>
    /\ MainIdle
    /\ InspectIdle /\ SortIdle /\ DateIdle /\ SuffixIdle

WriterCall ==
    /\ Len(log) < MaxCalls
    /\ \E date_string \in {Day18, Day18b}, email_content \in Contents :
         LET call == [filepath |-> DirAl, name |-> NameAl,
                      date_string |-> date_string,
                      email_content |-> email_content]
             out == save_email_to_text_file(fs, dirs, unreadable, call)
         IN /\ fs' = out.fs
            /\ dirs' = out.dirs
            /\ log' = Append(log, [run |-> 0, call |-> call, ret |-> out.ret,
                                   filename |-> out.filename])
    /\ UNCHANGED <<unreadable, seed, mvars, ivars, pvars>>

NextWriter == WriterCall

SpecWriter == InitWriter /\ [][NextWriter]_vars

\* The directly built file systems are the ones the calls produce.
SeedIsReachable ==
    (log = <<>> /\ seed <= 26) => fs = Prefill(EmptyFs, 1, seed)


-----------------------------------------------------------------------------
(* The writer in a directory where reading some files is denied            *)

TrackedPath(sfx) ==
    os_path_join(DirAl, make_suffixed_filename(NameAl, Day18, sfx))

\* Numbers of files the tracked group holds at the start, and for each the
\* sets of files that cannot be read: the base file, the file of suffix b,
\* the file of suffix zz
DeniedSeeds == {1, 2, 702}

DeniedSets(k) ==
    IF k = 1 THEN {{TrackedPath(<<>>)}}
    ELSE IF k = 2
    THEN {{TrackedPath(<<>>)}, {TrackedPath(<<98>>)},
          {TrackedPath(<<>>), TrackedPath(<<98>>)}}
    ELSE {{TrackedPath(<<122, 122>>)},
          {TrackedPath(<<>>), TrackedPath(<<122, 122>>)}}

\* A file that cannot be read may hold the very content that will be
\* written ("x")
InitUnreadable ==
    /\ seed \in DeniedSeeds
    /\ unreadable \in DeniedSets(seed)
    /\ \E same \in BOOLEAN :
         fs = IF same
              THEN write_file(SeededFs(seed),
                              CHOOSE q \in unreadable :
                                  \A r \in unreadable : Len(q) <= Len(r),
                              <<120>>)
              ELSE SeededFs(seed)
    /\ dirs = {DirAl}
    /\ log = <<>>
    /\ MainIdle
    /\ InspectIdle /\ SortIdle /\ DateIdle /\ SuffixIdle

SpecUnreadable == InitUnreadable /\ [][NextWriter]_vars

-----------------------------------------------------------------------------
(* The suffixes one after another, as the writer meets them when every     *)
(* name is taken by a file of different content                            *)

InitSuffix ==
    /\ cur_suffix = <<>>
    /\ allocated = <<>>
    /\ WriterIdle /\ MainIdle /\ InspectIdle /\ SortIdle /\ DateIdle

\* The base name is tried first, then suffix = "b", then
\* suffix = next_suffix(suffix) until it is None
SuffixStep ==
    /\ cur_suffix # None
    /\ allocated' = Append(allocated, cur_suffix)
    /\ cur_suffix' = IF cur_suffix = <<>> THEN <<98>>
                     ELSE next_suffix(cur_suffix)
    /\ UNCHANGED <<sort_arg, sorted_emails, date_arg, date_out, wvars, mvars,
                   ivars>>

NextSuffix == SuffixStep

SpecSuffix == InitSuffix /\ [][NextSuffix]_vars

-----------------------------------------------------------------------------
(* inspect_email_text on its own: texts of a few lines                     *)

MaxLines == 4

\* "From: a@b", "Subject: s", "Date: 2008-07-18", "To: t", "x", " " and
\* "From: " (a prefix with nothing after it)
LineFrom == <<70, 114, 111, 109, 58, 32, 97, 64, 98>>
LineSubject == <<83, 117, 98, 106, 101, 99, 116, 58, 32, 115>>
LineDate == <<68, 97, 116, 101, 58, 32, 50, 48, 48, 56, 45, 48, 55, 45, 49, 56>>
LineTo == <<84, 111, 58, 32, 116>>
LineJunk == <<120>>
LineSpace == <<32>>
LineFromOnly == <<70, 114, 111, 109, 58, 32>>

Lines == {LineFrom, LineSubject, LineDate, LineTo, LineJunk, LineSpace,
          LineFromOnly, <<>>}

Texts == UNION {{join(ls, 10) : ls \in [1..n -> Lines]} : n \in 0..MaxLines}

InitInspect ==
    /\ inspect_arg \in Texts
    /\ parsed = NotCalled
    /\ WriterIdle
    /\ MainIdle
    /\ SortIdle /\ DateIdle /\ SuffixIdle

InspectCall ==
    /\ ~parsed.called
    /\ parsed' = [called |-> TRUE, out |-> inspect_email_text(inspect_arg)]
    /\ UNCHANGED <<inspect_arg, wvars, mvars, pvars>>

NextInspect == InspectCall

SpecInspect == InitInspect /\ [][NextInspect]_vars

-----------------------------------------------------------------------------
(* Claims about inspect_email_text                                         *)

\* The lines of t before its first blank line, each without trailing
\* white space
RECURSIVE HeaderLines(_)
HeaderLines(lines) ==
    IF lines = <<>> \/ rstrip(Head(lines)) = <<>> THEN <<>>
    ELSE <<rstrip(Head(lines))>> \o HeaderLines(Tail(lines))

HasHeaderLine(t, field) ==
    LET hs == HeaderLines(split(t, 10))
    IN \E k \in 1..Len(hs) : startswith(hs[k], start_string(field))

AbsentMandatory(t) ==
    {f \in {"From", "Subject", "Date"} : ~HasHeaderLine(t, f)}

\* C10 (as claimed): a fragment is rejected exactly when one of From,
\* Subject, Date has no header line before the first blank line, and the
\* missing fields reported are exactly the absent ones.
C10_MandatoryFieldRejection ==
    parsed.called =>
        /\ parsed.out.rejected <=> AbsentMandatory(inspect_arg) # {}
        /\ parsed.out.rejected =>
             {parsed.out.missing_fields[k] :
                 k \in 1..Len(parsed.out.missing_fields)}
                 = AbsentMandatory(inspect_arg)

\* The lines of t, newline included, that follow its first blank line (a
\* line that is empty once its trailing white space is stripped)
RECURSIVE LinesAfterBlank(_)
LinesAfterBlank(lines) ==
    IF lines = <<>> THEN <<>>
    ELSE IF rstrip(Head(lines)) = <<>> THEN Tail(lines)
    ELSE LinesAfterBlank(Tail(lines))

\* C15 (as claimed): the Body of an accepted fragment is every line after
\* the fragment's first blank line, in order and verbatim, none dropped.
C15_BodyCapture ==
    (parsed.called /\ ~parsed.out.rejected) =>
        parsed.out.Body = LinesAfterBlank(readlines(inspect_arg))

\* C16 (as claimed): every record returned has both To and Reply-To, each
\* the empty string when the fragment has no such header line.
C16_OptionalDefaults ==
    (parsed.called /\ ~parsed.out.rejected) =>
        \A f \in {"To", "Reply-To"} :
            /\ f \in DOMAIN parsed.out.data
            /\ ~HasHeaderLine(inspect_arg, f) => parsed.out.data[f] = <<>>

-----------------------------------------------------------------------------
(* main                                                                    *)

\* "\x0c"
divider_char == 12

parse_emails_from_file(blob) == split(universal_newlines(blob), divider_char)

\* An empty list is written like any other: an empty file is left
save_emails_to_file_writes_empty(es, blob) == join(es, divider_char)

\* What the input file holds after save_emails_to_file(es, input_file)
save_emails_to_file(es, blob) ==
    IF Len(es) = 0 THEN None ELSE join(es, divider_char)

\* [email for email in emails if email not in emails_processed]
remaining_drops_head(es, processed) ==
    IF es = <<>> THEN es
    ELSE SelectSeq(Tail(es), LAMBDA e : \A k \in 1..Len(processed) : processed[k] # e)

remaining(es, processed) ==
    SelectSeq(es, LAMBDA e : \A k \in 1..Len(processed) : processed[k] # e)

\* emails_processed.append(email) for a rejected email (line 488)
mark_rejected_keeps(processed, email) == processed

mark_rejected(processed, email) == Append(processed, email)

\* os.path.split(path)[-1]
RECURSIVE os_path_basename(_)
os_path_basename(path) ==
    IF IndexOf(path, 47) = 0 THEN path
    ELSE os_path_basename(SubSeq(path, IndexOf(path, 47) + 1, Len(path)))

KEY_CHOICES == {"f", "m", "a", "p", "o", "d", "x"}

\* The database is a function of the address: the order of its entries
\* is not kept.  raised: an entry's path is empty or holds "\x00".
validate_email_db(db) ==
    [raised |-> \E a \in DOMAIN db :
                    db[a].path = <<>>
                    \/ \E k \in 1..Len(db[a].path) : db[a].path[k] = 0,
     db |-> db]

\* What save_email_db stored, validated
load_email_db(stored) == validate_email_db(stored).db

\* "2026 11 01": pd.Timestamp.now().strftime("%Y %m %d")
Today == <<50, 48, 50, 54, 32, 49, 49, 32, 48, 49>>

MaxEmails == 2
MaxRuns == 2

\* The fragments of the input files:
\*   FragA1  "From: a@b\nDate: 2008-07-18\n\nx"
\*   FragA2  "From: a@b\nDate: 2008-07-18\n\ny"     (same sender and day)
\*   FragU   "From: C <c@d>\nDate: ??\n\nz"         (sender not known, date
\*                                                   not parseable)
\*   FragR   "Subject: hi\n\nbody"                  (no From, no Date)
\*   FragN   "From: a@b\nDate: PST\n\nv"            (the date cleans to "")
FragA1 ==
    <<70, 114, 111, 109, 58, 32, 97, 64, 98, 10, 68, 97, 116, 101, 58, 32,
      50, 48, 48, 56, 45, 48, 55, 45, 49, 56, 10, 10, 120>>
FragA2 ==
    <<70, 114, 111, 109, 58, 32, 97, 64, 98, 10, 68, 97, 116, 101, 58, 32,
      50, 48, 48, 56, 45, 48, 55, 45, 49, 56, 10, 10, 121>>
FragU ==
    <<70, 114, 111, 109, 58, 32, 67, 32, 60, 99, 64, 100, 62, 10, 68, 97,
      116, 101, 58, 32, 63, 63, 10, 10, 122>>
FragR ==
    <<83, 117, 98, 106, 101, 99, 116, 58, 32, 104, 105, 10, 10, 98, 111,
      100, 121>>
FragN ==
    <<70, 114, 111, 109, 58, 32, 97, 64, 98, 10, 68, 97, 116, 101, 58, 32,
      80, 83, 84, 10, 10, 118>>

Fragments == {FragA1, FragA2, FragU, FragR, FragN}

\* The input files: up to MaxEmails fragments joined by the divider (the
\* empty file among them)
Blobs ==
    UNION {{join(fr, divider_char) : fr \in [1..n -> Fragments]} :
              n \in 0..MaxEmails}

\* "a@b" and "/q/Bo"
AddrAB == <<97, 64, 98>>
DirBo == <<47, 113, 47, 66, 111>>

\* The folders the operator can pick; <<>> is the cancelled dialog
Folders == {DirAl, DirBo, <<>>}

\* What the operator types at the date prompt: "2008 07 18" or "q"
DateReplies == {Day18, <<113>>}

BatchSizes == {-1, 0, 1, 2}

email == it_list[it_pos]

Elems(xs) == {xs[k] : k \in 1..Len(xs)}

\* The fragments the input file holds
Pending == IF input_blob = None THEN {} ELSE Elems(parse_emails_from_file(input_blob))

InitMain ==
    /\ input_blob \in Blobs
    /\ orig = Elems(parse_emails_from_file(input_blob))
    /\ saved_db = (AddrAB :> [name |-> NameAl, path |-> DirAl,
                              last_used |-> Today])
    /\ email_db = EmptyDb
    /\ emails = <<>> /\ it_list = <<>> /\ it_pos = 0
    /\ emails_processed = <<>> /\ batch = 0
    /\ pc = "start" /\ run = 1
    /\ rejected = {} /\ quit_typed = ""
    /\ WriterIdle
    /\ InspectIdle /\ SortIdle /\ DateIdle /\ SuffixIdle

\* Lines 452-471: the address database and the input file are loaded, the
\* emails sorted.  A later run starts the same way from what is on disk.
Start ==
    /\ \/ pc = "start" /\ run' = run
       \/ pc \in {"done", "dead", "crashed"} /\ run < MaxRuns /\ run' = run + 1
    /\ input_blob # None
    /\ emails_processed' = <<>>
    /\ batch' = 0
    /\ rejected' = {}
    /\ quit_typed' = ""
    /\ IF validate_email_db(saved_db).raised
       THEN /\ pc' = "crashed"
            /\ email_db' = EmptyDb
            /\ emails' = <<>> /\ it_list' = <<>> /\ it_pos' = 0
       ELSE /\ email_db' = load_email_db(saved_db)
            /\ LET es == sort_emails_by_date(
                             parse_emails_from_file(input_blob))
               IN emails' = es /\ it_list' = es
            /\ it_pos' = 1
            /\ pc' = "top"
    /\ UNCHANGED <<input_blob, saved_db, orig, wvars, ivars, pvars>>

\* The for statement has no further email
LoopEnd ==
    /\ pc = "top" /\ it_pos > Len(it_list)
    /\ pc' = "final"
    /\ UNCHANGED <<input_blob, saved_db, email_db, emails, it_list, it_pos,
                   emails_processed, batch, run, orig, rejected, quit_typed,
                   wvars, ivars, pvars>>

\* Lines 473-483: batch == 0, the operator enters n
BatchPrompt ==
    /\ pc = "top" /\ it_pos <= Len(it_list) /\ batch = 0
    /\ \E n \in BatchSizes :
         IF n = 0
         THEN pc' = "final" /\ quit_typed' = "batch" /\ batch' = batch
         ELSE pc' = "inspect" /\ quit_typed' = quit_typed /\ batch' = n
    /\ UNCHANGED <<input_blob, saved_db, email_db, emails, it_list, it_pos,
                   emails_processed, run, orig, rejected, wvars, ivars, pvars>>

\* batch # 0: no prompt
NextEmail ==
    /\ pc = "top" /\ it_pos <= Len(it_list) /\ batch # 0
    /\ pc' = "inspect"
    /\ UNCHANGED <<input_blob, saved_db, email_db, emails, it_list, it_pos,
                   emails_processed, batch, run, orig, rejected, quit_typed,
                   wvars, ivars, pvars>>

\* Lines 485-490: data is None
Reject ==
    /\ pc = "inspect"
    /\ inspect_email_text(email).rejected
    /\ emails_processed' = mark_rejected(emails_processed, email)
    /\ batch' = batch - 1
    /\ it_pos' = it_pos + 1
    /\ rejected' = rejected \cup {email}
    /\ pc' = "top"
    /\ UNCHANGED <<input_blob, saved_db, email_db, emails, it_list, run, orig,
                   quit_typed, wvars, ivars, pvars>>

from_email == find_email(inspect_email_text(email).data["From"])

\* Lines 492-499: the email is shown; is its sender known?
Accept ==
    /\ pc = "inspect"
    /\ ~inspect_email_text(email).rejected
    /\ pc' = IF from_email \in DOMAIN email_db THEN "save" ELSE "classify"
    /\ UNCHANGED <<input_blob, saved_db, email_db, emails, it_list, it_pos,
                   emails_processed, batch, run, orig, rejected, quit_typed,
                   wvars, ivars, pvars>>

\* "q" is taken for "n": the loop goes on with the next email
ClassifyQuit_goes_on ==
    /\ pc = "classify"
    /\ pc' = "top"
    /\ it_pos' = it_pos + 1
    /\ quit_typed' = "classify"
    /\ UNCHANGED <<input_blob, saved_db, email_db, emails, it_list,
                   emails_processed, batch, run, orig, rejected, wvars, ivars, pvars>>

\* Lines 500-511 and 529-530: "q" at either prompt leaves the loop
ClassifyQuit ==
    /\ pc = "classify"
    /\ pc' = "final"
    /\ quit_typed' = "classify"
    /\ UNCHANGED <<input_blob, saved_db, email_db, emails, it_list, it_pos,
                   emails_processed, batch, run, orig, rejected, wvars, ivars, pvars>>

\* Lines 500-527: "y", a key of KEY_CHOICES, a folder
ClassifyAdd ==
    /\ pc = "classify"
    /\ \E r \in KEY_CHOICES, path \in Folders :
         email_db' = (from_email :> [name |-> os_path_basename(path),
                                     path |-> path, last_used |-> Today])
                         @@ email_db
    /\ pc' = "save"
    /\ UNCHANGED <<input_blob, saved_db, emails, it_list, it_pos,
                   emails_processed, batch, run, orig, rejected, quit_typed,
                   wvars, ivars, pvars>>

\* Lines 500, 533, 553-554: any other answer, "Email was not added"
ClassifyNo ==
    /\ pc = "classify"
    /\ it_pos' = it_pos + 1
    /\ pc' = "top"
    /\ UNCHANGED <<input_blob, saved_db, email_db, emails, it_list,
                   emails_processed, batch, run, orig, rejected, quit_typed,
                   wvars, ivars, pvars>>

\* Lines 533-545: the date string, the write, the bookkeeping
Save ==
    /\ pc = "save"
    /\ \E reply \in DateReplies :
         LET data == inspect_email_text(email).data
             ds == get_email_date_string(data, reply)
             call == [filepath |-> email_db[from_email].path,
                      name |-> email_db[from_email].name,
                      date_string |-> ds.date_string,
                      email_content |-> email]
             out == save_email_to_text_file(fs, dirs, unreadable, call)
         IN /\ quit_typed' = IF ds.prompted /\ reply = <<113>>
                             THEN "date" ELSE quit_typed
            /\ IF ds.raised
               THEN /\ pc' = "crashed"
                    /\ UNCHANGED <<fs, dirs, log, emails_processed, batch,
                                   it_pos>>
               ELSE /\ fs' = out.fs
                    /\ dirs' = out.dirs
                    /\ log' = Append(log, [run |-> run, call |-> call,
                                           ret |-> out.ret,
                                           filename |-> out.filename])
                    /\ IF out.ret \notin {"Saved", "Identical"}
                       THEN /\ pc' = "crashed"
                            /\ UNCHANGED <<emails_processed, batch, it_pos>>
                       ELSE /\ emails_processed' =
                                   Append(emails_processed, email)
                            /\ batch' = batch - 1
                            /\ IF batch - 1 = 0
                               THEN pc' = "persist" /\ it_pos' = it_pos
                               ELSE pc' = "top" /\ it_pos' = it_pos + 1
    /\ UNCHANGED <<input_blob, saved_db, email_db, emails, it_list, run, orig,
                   rejected, unreadable, seed, ivars, pvars>>

\* Lines 545-551: batch == 0, "Do a save of results"
Persist ==
    /\ pc = "persist"
    /\ saved_db' = email_db
    /\ emails' = remaining(emails, emails_processed)
    /\ input_blob' = save_emails_to_file(emails', input_blob)
    /\ it_pos' = it_pos + 1
    /\ pc' = "top"
    /\ UNCHANGED <<email_db, it_list, emails_processed, batch, run, orig,
                   rejected, quit_typed, wvars, ivars, pvars>>

\* Lines 556-559: after the loop
Final ==
    /\ pc = "final"
    /\ saved_db' = email_db
    /\ emails' = remaining(emails, emails_processed)
    /\ input_blob' = save_emails_to_file(emails', input_blob)
    /\ pc' = "done"
    /\ UNCHANGED <<email_db, it_list, it_pos, emails_processed, batch, run,
                   orig, rejected, quit_typed, wvars, ivars, pvars>>

\* The process is ended from outside while it waits or works
Interrupt ==
    /\ pc \in {"top", "inspect", "classify", "save", "persist", "final"}
    /\ pc' = "dead"
    /\ UNCHANGED <<input_blob, saved_db, email_db, emails, it_list, it_pos,
                   emails_processed, batch, run, orig, rejected, quit_typed,
                   wvars, ivars, pvars>>

NextMain ==
    \/ Start \/ LoopEnd \/ BatchPrompt \/ NextEmail \/ Reject \/ Accept
    \/ ClassifyQuit \/ ClassifyAdd \/ ClassifyNo \/ Save \/ Persist \/ Final
    \/ Interrupt

SpecMain == InitMain /\ [][NextMain]_vars

-----------------------------------------------------------------------------
(* sort_emails_by_date on its own: lists of a few fragments                *)

MaxSort == 3

\* More fragments:
\*   FragB     "From: a@b\nDate: 2007-01-01\n\nw"   (an earlier day)
\*   FragLate  "x\n\nDate: 2007-01-01"              (Date after the blank line)
FragB ==
    <<70, 114, 111, 109, 58, 32, 97, 64, 98, 10, 68, 97, 116, 101, 58, 32, 50, 48, 48, 55, 45, 48, 49, 45, 48, 49, 10, 10, 119>>
FragLate ==
    <<120, 10, 10, 68, 97, 116, 101, 58, 32, 50, 48, 48, 55, 45, 48, 49, 45, 48, 49>>

SortFragments == {FragA1, FragA2, FragB, FragU, FragR, FragN, FragLate}

SortArgs == UNION {[1..n -> SortFragments] : n \in 0..MaxSort}

InitSort ==
    /\ sort_arg \in SortArgs
    /\ sorted_emails = NotCalled
    /\ WriterIdle /\ MainIdle /\ InspectIdle /\ DateIdle /\ SuffixIdle

SortCall ==
    /\ ~sorted_emails.called
    /\ sorted_emails' = [called |-> TRUE, out |-> sort_emails_by_date(sort_arg)]
    /\ UNCHANGED <<sort_arg, date_arg, date_out, cur_suffix, allocated,
                   wvars, mvars, ivars>>

NextSort == SortCall

SpecSort == InitSort /\ [][NextSort]_vars

-----------------------------------------------------------------------------
(* Claims about sort_emails_by_date                                        *)

\* The value of the first "Date: " line before the first blank line of t,
\* None when there is no such line
HeaderDate(t) ==
    LET hs == HeaderLines(split(t, 10))
        ks == {k \in 1..Len(hs) : startswith(hs[k], DatePrefix)}
    IN IF ks = {} THEN None
       ELSE LET k == CHOOSE k \in ks : \A j \in ks : k <= j
            IN SubSeq(hs[k], 7, Len(hs[k]))

\* t has a Date line whose value normalizes to a timestamp
Normalizes(t) ==
    /\ HeaderDate(t) # None
    /\ datetime_from_string(HeaderDate(t)).kind = "Timestamp"

TimestampOf(t) == datetime_from_string(HeaderDate(t))

\* out lists the elements of arg in the order perm
IsOrderOf(out, arg, perm) ==
    /\ Len(out) = Len(arg)
    /\ {perm[i] : i \in 1..Len(arg)} = 1..Len(arg)
    /\ \A i \in 1..Len(arg) : out[i] = arg[perm[i]]

\* perm puts the dated elements of arg first, by ascending timestamp and
\* stably, and the undated ones after them in their original order
IsChronological(arg, perm) ==
    \A i, j \in 1..Len(arg) :
        i < j =>
            LET a == arg[perm[i]]
                b == arg[perm[j]]
            IN /\ Normalizes(b) => Normalizes(a)
               /\ (Normalizes(a) /\ Normalizes(b)) =>
                    /\ ~Before(TimestampOf(b), TimestampOf(a))
                    /\ ~Before(TimestampOf(a), TimestampOf(b))
                           => perm[i] < perm[j]
               /\ (~Normalizes(a) /\ ~Normalizes(b)) => perm[i] < perm[j]

\* C11 (as claimed): the result lists the fragments whose date normalizes
\* by ascending timestamp, equal timestamps in their original order, and
\* then the undated fragments in their original order.
C11_SortOrder ==
    sorted_emails.called =>
        \E perm \in [1..Len(sort_arg) -> 1..Len(sort_arg)] :
            /\ IsOrderOf(sorted_emails.out, sort_arg, perm)
            /\ IsChronological(sort_arg, perm)

\* C17 (as claimed): the fragments with no Date line before their first
\* blank line, or with one whose value does not normalize to a timestamp,
\* are exactly the tail of the result; the result is a permutation of the
\* argument; and the dated fragments come out in the order they would have
\* without the undated ones.
C17_UndatedPartition ==
    sorted_emails.called =>
        LET out == sorted_emails.out
            dated == SelectSeq(sort_arg, Normalizes)
        IN /\ \E perm \in [1..Len(sort_arg) -> 1..Len(sort_arg)] :
                 IsOrderOf(out, sort_arg, perm)
           /\ \A k \in 1..Len(out) : Normalizes(out[k]) <=> k <= Len(dated)
           /\ SelectSeq(out, Normalizes) = sort_emails_by_date(dated)

-----------------------------------------------------------------------------
(* parse_emails_from_file and save_emails_to_file on their own             *)

MaxBlob == 4

\* "a", "\n", "\r" and the divider
BlobChars == {97, 10, 13, divider_char}

FileBlobs == UNION {[1..n -> BlobChars] : n \in 0..MaxBlob}

InitFile ==
    /\ input_blob \in FileBlobs
    /\ saved_db = EmptyDb /\ email_db = EmptyDb
    /\ emails = <<>> /\ it_list = <<>> /\ it_pos = 0
    /\ emails_processed = <<>> /\ batch = 0 /\ pc = "file" /\ run = 0
    /\ orig = {} /\ rejected = {} /\ quit_typed = ""
    /\ WriterIdle /\ InspectIdle /\ SortIdle /\ DateIdle /\ SuffixIdle

\* emails = parse_emails_from_file(input_file)
ParseFile ==
    /\ pc = "file"
    /\ emails' = parse_emails_from_file(input_blob)
    /\ pc' = "parsed"
    /\ UNCHANGED <<input_blob, saved_db, email_db, it_list, it_pos,
                   emails_processed, batch, run, orig, rejected, quit_typed,
                   wvars, ivars, pvars>>

\* save_emails_to_file(emails, input_file) once the first k emails are
\* filtered out
SaveFile ==
    /\ pc \in {"parsed", "saved"}
    /\ \E k \in 0..Len(emails) :
         /\ emails' = SubSeq(emails, k + 1, Len(emails))
         /\ input_blob' = save_emails_to_file(emails', input_blob)
    /\ pc' = "saved"
    /\ UNCHANGED <<saved_db, email_db, it_list, it_pos, emails_processed,
                   batch, run, orig, rejected, quit_typed, wvars, ivars,
                   pvars>>

NextFile == ParseFile \/ SaveFile

SpecFile == InitFile /\ [][NextFile]_vars

-----------------------------------------------------------------------------
(* Claims about parse_emails_from_file and save_emails_to_file             *)

\* C12 (as claimed): saving all the fragments that were parsed from the
\* input file leaves the file as it was, character for character.
C12_ExactRoundTrip ==
    [][(pc = "parsed" /\ pc' = "saved" /\ emails' = emails) =>
           input_blob' = input_blob]_vars

\* C13: after save_emails_to_file with an empty list the input file does
\* not exist (no empty file is left); after it with a non-empty list the
\* file exists and holds the emails joined by the divider.
C13_EmptyResultDeletion ==
    pc = "saved" =>
        /\ emails = <<>> => input_blob = None
        /\ emails # <<>> =>
             input_blob # None /\ input_blob = join(emails, divider_char)

\* The file was deleted after it had been saved with emails in it
C13_Witness ==
    pc = "saved" /\ emails = <<>> /\ input_blob = None

-----------------------------------------------------------------------------
(* datetime_from_string on its own: composed date strings                  *)

MinYear == 2007
MaxYear == 2008

DateMonths == {2, 7, 12}
DateDays == {18, 28, 29, 30, 31}

\* The clock times written after " at ": hours 0, 23, 24 and 25
ClockTimes ==
    {[H |-> h, M |-> m, S |-> s] :
        h \in {0, 23, 24, 25}, m \in {0, 48, 60}, s \in {0, 37}}

\* "", " PDT" and "  PDT"
TzTails == {<<>>, <<32, 80, 68, 84>>, <<32, 32, 80, 68, 84>>}

\* "YYYY-MM-DD"
DateText(y, m, d) == Digits4(y) \o <<45>> \o Digits2(m) \o <<45>> \o Digits2(d)

\* "HH:MM:SS"
ClockText(t) == Digits2(t.H) \o <<58>> \o Digits2(t.M) \o <<58>> \o Digits2(t.S)

DateStrings ==
    {DateText(y, m, d) \o tz :
        y \in MinYear..MaxYear, m \in DateMonths, d \in DateDays,
        tz \in TzTails}
    \cup
    {DateText(y, m, d) \o AtWord \o ClockText(t) \o tz :
        y \in MinYear..MaxYear, m \in DateMonths, d \in DateDays,
        t \in ClockTimes, tz \in TzTails}

InitDate ==
    /\ date_arg \in DateStrings
    /\ date_out = NotCalled
    /\ WriterIdle /\ MainIdle /\ InspectIdle /\ SortIdle /\ SuffixIdle

DateCall ==
    /\ ~date_out.called
    /\ date_out' = [called |-> TRUE, out |-> datetime_from_string(date_arg)]
    /\ UNCHANGED <<date_arg, sort_arg, sorted_emails, cur_suffix, allocated,
                   wvars, mvars, ivars>>

NextDate == DateCall

SpecDate == InitDate /\ [][NextDate]_vars

-----------------------------------------------------------------------------
(* Claims about datetime_from_string                                       *)

\* The number of the day (y, m, d) within its year
RECURSIVE DayOfYear(_, _, _)
DayOfYear(y, m, d) ==
    IF m = 1 THEN d ELSE DaysInMonth(y, m - 1) + DayOfYear(y, m - 1, d)

IsCalendarDay(y, m, d) == m \in 1..12 /\ d \in 1..DaysInMonth(y, m)

\* b is the calendar day after (y, m, d)
IsDayAfter(b, y, m, d) ==
    /\ b.kind = "Timestamp"
    /\ IsCalendarDay(b.y, b.m, b.d)
    /\ \/ b.y = y /\ DayOfYear(b.y, b.m, b.d) = DayOfYear(y, m, d) + 1
       \/ b.y = y + 1 /\ b.m = 1 /\ b.d = 1 /\ m = 12 /\ d = 31

\* C14: "<date> at 24:MM:SS" (with or without a timezone abbreviation)
\* becomes 00:MM:SS of the calendar day after <date>, month and year ends
\* rolled over; a date, or a date with a clock time of hour 0 to 23, is
\* returned as it is, no day added.
C14_Hour24Repair ==
    date_out.called =>
        \A y \in MinYear..MaxYear, m \in DateMonths, d \in DateDays,
           tz \in TzTails :
            IsCalendarDay(y, m, d) =>
                /\ date_arg = DateText(y, m, d) \o tz =>
                     date_out.out = [kind |-> "Timestamp", y |-> y, m |-> m,
                                     d |-> d, H |-> 0, M |-> 0, S |-> 0]
                /\ \A t \in ClockTimes :
                     (/\ date_arg = DateText(y, m, d) \o AtWord
                                        \o ClockText(t) \o tz
                      /\ t.M \in 0..59 /\ t.S \in 0..59) =>
                         /\ t.H = 24 =>
                              /\ IsDayAfter(date_out.out, y, m, d)
                              /\ date_out.out.H = 0
                              /\ date_out.out.M = t.M
                              /\ date_out.out.S = t.S
                         /\ t.H \in 0..23 =>
                              date_out.out =
                                  [kind |-> "Timestamp", y |-> y, m |-> m,
                                   d |-> d, H |-> t.H, M |-> t.M, S |-> t.S]

\* "2008-12-31 at 24:48:37  PDT" has become 2009-01-01 00:48:37
C14_Witness ==
    /\ date_out.called
    /\ date_arg = DateText(2008, 12, 31) \o AtWord
                      \o ClockText([H |-> 24, M |-> 48, S |-> 37])
                      \o <<32, 32, 80, 68, 84>>
    /\ date_out.out = [kind |-> "Timestamp", y |-> 2009, m |-> 1, d |-> 1,
                       H |-> 0, M |-> 48, S |-> 37]

-----------------------------------------------------------------------------
(* get_email_datetime and inspect_email_text on the same fragment          *)

\* "Date: 2007-01-01" and "Date: ??"
LineDate2 == <<68, 97, 116, 101, 58, 32, 50, 48, 48, 55, 45, 48, 49, 45, 48, 49>>
LineDateBad == <<68, 97, 116, 101, 58, 32, 63, 63>>

DateLines == {LineFrom, LineDate, LineDate2, LineDateBad, LineJunk, <<>>}

DateTexts ==
    UNION {{join(ls, 10) : ls \in [1..n -> DateLines]} : n \in 0..MaxLines}

InitBoth ==
    /\ inspect_arg \in DateTexts
    /\ parsed = NotCalled
    /\ date_arg = <<>> /\ date_out = NotCalled
    /\ WriterIdle /\ MainIdle /\ SortIdle /\ SuffixIdle

\* dt, error = get_email_datetime(email), as sort_emails_by_date calls it
DatetimeCall ==
    /\ ~date_out.called
    /\ date_out' = [called |-> TRUE, out |-> get_email_datetime(inspect_arg)]
    /\ UNCHANGED <<date_arg, sort_arg, sorted_emails, cur_suffix, allocated,
                   wvars, mvars, ivars>>

NextBoth == InspectCall \/ DatetimeCall

SpecBoth == InitBoth /\ [][NextBoth]_vars

\* What get_email_datetime makes of a Date value: the ValueError of
\* datetime_from_string is caught and None is returned
AsDatetime(date_str) ==
    IF datetime_from_string(date_str).kind = "ValueError" THEN NoDatetime
    ELSE datetime_from_string(date_str)

\* C22 (as claimed): for an accepted fragment, the date get_email_datetime
\* orders it by is the date of the Date value that inspect_email_text
\* returns and the file is named after, also when the header has more than
\* one Date line.
C22_DateExtractorsAgree ==
    (parsed.called /\ date_out.called /\ ~parsed.out.rejected) =>
        date_out.out = AsDatetime(parsed.out.data["Date"])

-----------------------------------------------------------------------------
(* Claims about the writer                                                 *)

\* The disambiguators as the documentation lists them: none, b .. z,
\* aa .. zz; k counts from 1.
NthSuffix(k) ==
    IF k = 1 THEN <<>>
    ELSE IF k <= 26 THEN <<96 + k>>
    ELSE <<97 + ((k - 27) \div 26), 97 + ((k - 27) % 26)>>

AllSuffixes ==
    {<<>>} \cup {<<c>> : c \in 98..122}
           \cup {<<c, d>> : c \in 97..122, d \in 97..122}

\* The paths of the files of the call's (filepath, name, date_string)
GroupPaths(call) ==
    {os_path_join(call.filepath,
                  make_suffixed_filename(call.name, call.date_string, sfx)) :
        sfx \in AllSuffixes}

\* The files of the call's group that hold exactly the call's content
HoldersOf(call) ==
    {p \in GroupPaths(call) \cap DOMAIN fs : fs[p] = call.email_content}

\* Every logged call is for the tracked group and no two carry the same
\* content (the fillers differ from all of them).
DistinctTrackedCalls ==
    /\ \A i \in 1..Len(log) :
         log[i].call.filepath = DirAl /\ log[i].call.name = NameAl
         /\ log[i].call.date_string = Day18
    /\ \A i, j \in 1..Len(log) :
         i # j => log[i].call.email_content # log[j].call.email_content

\* C1 (as claimed): two calls in a row with the same arguments report
\* "Saved as f" and then "Identical file already exists: f" for the same f,
\* and afterwards exactly one file of the group holds the content.
C1_IdempotentWrite ==
    \A i \in 1..(Len(log) - 1) :
        log[i].call = log[i + 1].call =>
            /\ log[i].ret = "Saved"
            /\ log[i + 1].ret = "Identical"
            /\ log[i + 1].filename = log[i].filename
            /\ (i + 1 = Len(log) => Cardinality(HoldersOf(log[i].call)) = 1)

\* C2 (as claimed): pairwise-distinct contents written one after another to
\* one group that started empty each create a file, the k-th under the k-th
\* name of base, b, .., z, aa, .., zz.
C2_CollisionOrder ==
    DistinctTrackedCalls =>
        \A k \in 1..Len(log) :
            seed + k <= 702 =>
                /\ log[k].ret = "Saved"
                /\ log[k].filename =
                       make_suffixed_filename(NameAl, Day18,
                                              NthSuffix(seed + k))

\* C3 (as claimed): the first 702 pairwise-distinct contents of a group are
\* all written, the next one raises ValueError, and every call ends as
\* Saved, Identical or ValueError.
C3_ExhaustionIsHardFailure ==
    /\ \A k \in 1..Len(log) :
         log[k].ret \in {"Saved", "Identical", "ValueError"}
    /\ DistinctTrackedCalls =>
         \A k \in 1..Len(log) :
            /\ seed + k <= 702 => log[k].ret = "Saved"
            /\ seed + k = 703 =>
                 log[k].ret = "ValueError" /\ Cardinality(DOMAIN fs) = 702

\* C4: a call changes no file that existed before it; one that reports
\* Identical (or raises) leaves the files as they were; one that reports
\* Saved adds exactly one file, which holds the given content verbatim.
C4_NeverOverwrites ==
    [][Len(log') = Len(log) + 1 =>
         LET last == log'[Len(log')]
             path == os_path_join(last.call.filepath, last.filename)
         IN /\ \A p \in DOMAIN fs : p \in DOMAIN fs' /\ fs'[p] = fs[p]
            /\ last.ret # "Saved" => fs' = fs
            /\ last.ret = "Saved" =>
                 /\ path \notin DOMAIN fs
                 /\ DOMAIN fs' = DOMAIN fs \cup {path}
                 /\ fs'[path] = last.call.email_content]_vars

\* A run in which the writer has met an occupied name, has written under a
\* suffix, has found identical content and has run out of suffixes.
C4_Witness ==
    /\ \E i \in 1..Len(log) :
         log[i].ret = "Saved"
         /\ log[i].filename # make_suffixed_filename(
                log[i].call.name, log[i].call.date_string, <<>>)
    /\ \E i \in 1..Len(log) : log[i].ret = "Identical"
    /\ \E i \in 1..Len(log) : log[i].ret = "ValueError"

-----------------------------------------------------------------------------
(* Claims about main                                                       *)

InFile(f) == \E p \in DOMAIN fs : fs[p] = f

\* The fragments the writer stored or found stored in the current run
WrittenInRun ==
    {log[k].call.email_content :
        k \in {i \in 1..Len(log) :
                  log[i].run = run /\ log[i].ret \in {"Saved", "Identical"}}}

LoopLeft == pc \in {"final", "done", "dead"}

\* Every file the writer reported in this run holds what it was given
WrittenFilesIntact ==
    \A k \in 1..Len(log) :
        (log[k].run = run /\ log[k].ret \in {"Saved", "Identical"}) =>
            LET path == os_path_join(log[k].call.filepath, log[k].filename)
            IN path \in DOMAIN fs /\ fs[path] = log[k].call.email_content

\* C8 (as claimed): "q" at the batch-size, classification or date prompt
\* ends the loop; then the address database and the input file are
\* persisted, and the file holds exactly the fragments not written in this
\* run; the files written stay as they are.
C8_QuitAtAnyPrompt ==
    /\ quit_typed # "" => LoopLeft
    /\ (pc = "done" /\ quit_typed # "") =>
         /\ saved_db = email_db
         /\ Pending = Elems(it_list) \ WrittenInRun
         /\ WrittenFilesIntact

\* C8 (amended): 0 at the batch-size prompt or "q" at the classification
\* prompts ends the loop (the date prompt has no quit: what is typed there
\* is the date string); then the address database and the input file are
\* persisted, and the file holds exactly the fragments neither written nor
\* rejected in this run; the files written stay as they are.
C8_QuitAtBatchOrClassify ==
    /\ quit_typed \in {"batch", "classify"} => LoopLeft
    /\ (pc = "done" /\ quit_typed \in {"batch", "classify"}) =>
         /\ saved_db = email_db
         /\ Pending = Elems(it_list) \ (WrittenInRun \cup rejected)
         /\ WrittenFilesIntact

\* "q" at the classification prompt after an email was written, with an
\* email left over
C8_Witness ==
    /\ pc = "done" /\ quit_typed = "classify"
    /\ \E k \in 1..Len(log) : log[k].run = run /\ log[k].ret = "Saved"
    /\ Pending # {}

\* C9: a call of the second run with the arguments of a call of the first
\* run that stored its fragment creates no file: it reports Identical, for
\* the filename of the first run.
C9_IdempotentAcrossRuns ==
    \A i, j \in 1..Len(log) :
        (/\ log[i].run = 1 /\ log[j].run = 2
         /\ log[i].ret \in {"Saved", "Identical"}
         /\ log[j].call = log[i].call) =>
            /\ log[j].ret = "Identical"
            /\ log[j].filename = log[i].filename

\* The first run wrote two fragments of one sender and day and was ended
\* before it persisted; the second run met the second of them again under
\* its suffixed name
C9_Witness ==
    \E i, j \in 1..Len(log) :
        /\ log[i].run = 1 /\ log[j].run = 2
        /\ log[i].ret = "Saved"
        /\ log[j].call = log[i].call
        /\ log[j].ret = "Identical"
        /\ log[j].filename # make_suffixed_filename(
               log[i].call.name, log[i].call.date_string, <<>>)

\* C18 (as claimed): when the Date value of the accepted fragment being
\* saved does not normalize to a timestamp (and a folder was chosen for its
\* sender), the step neither ends the run nor skips the fragment: it is
\* written, or found written, under a filename built from the operator's
\* reply, and main goes on to the next fragment.
C18_DateFailureDoesNotAbort ==
    [][(/\ pc = "save" /\ pc' # "dead"
        /\ datetime_from_string(
               inspect_email_text(email).data["Date"]).kind # "Timestamp"
        /\ email_db[from_email].path # <<>>) =>
           /\ pc' \in {"top", "persist"}
           /\ Len(log') = Len(log) + 1
           /\ LET last == log'[Len(log')]
              IN /\ last.call.email_content = email
                 /\ last.call.date_string \in DateReplies
                 /\ last.ret \in {"Saved", "Identical"}
                 /\ \E sfx \in AllSuffixes :
                      last.filename =
                          make_suffixed_filename(last.call.name,
                                                 last.call.date_string, sfx)
                 /\ os_path_join(last.call.filepath, last.filename)
                        \in DOMAIN fs']_vars

\* C19: a call in a directory where reading some existing files is denied
\* ends as Saved, Identical or ValueError; it changes none of those files,
\* never reports one of them as identical, and when it saves it saves to a
\* name that was free, every name before it in the order being taken.
C19_UnreadableIsDifferent ==
    [][Len(log') = Len(log) + 1 =>
         LET last == log'[Len(log')]
             path == os_path_join(last.call.filepath, last.filename)
         IN /\ last.ret \in {"Saved", "Identical", "ValueError"}
            /\ \A p \in unreadable : p \in DOMAIN fs' /\ fs'[p] = fs[p]
            /\ last.ret = "Identical" => path \notin unreadable
            /\ last.ret = "Saved" =>
                 /\ path \notin DOMAIN fs
                 /\ (last.call.date_string = Day18 => seed < 702)
            /\ last.ret = "ValueError" => fs' = fs]_vars

\* The content was saved again although a file that cannot be read holds
\* it already, and a call ran out of suffixes past an unreadable file
C19_Witness ==
    /\ unreadable # {}
    /\ \E k \in 1..Len(log) :
         /\ log[k].ret = "Saved"
         /\ \E p \in unreadable \cap GroupPaths(log[k].call) :
              fs[p] = log[k].call.email_content
         /\ log[k].filename = make_suffixed_filename(NameAl, Day18, <<99>>)

\* a comes before b: shorter first, then by the letters
SuffixLess(a, b) ==
    \/ Len(a) < Len(b)
    \/ /\ Len(a) = Len(b)
       /\ \E k \in 1..Len(a) :
            /\ a[k] < b[k]
            /\ \A j \in 1..(k - 1) : a[j] = b[j]

\* The suffixes met so far are strictly increasing, hence each met once
StrictlyIncreasing ==
    \A k \in 1..(Len(allocated) - 1) :
        SuffixLess(allocated[k], allocated[k + 1])

\* C20 (as claimed): when next_suffix signals exhaustion the writer has met
\* the empty suffix and 702 further values, in strictly increasing order.
C20_SuffixCount702Further ==
    /\ StrictlyIncreasing
    /\ cur_suffix = None =>
         /\ allocated[1] = <<>>
         /\ Len(allocated) = 1 + 702

\* C20 (amended): when next_suffix signals exhaustion the writer has met
\* the empty suffix and 701 further values, 702 names in all: b to z (25),
\* then aa to zz (676), each once and in strictly increasing order.
C20_SuffixCount701Further ==
    /\ StrictlyIncreasing
    /\ \A k \in 1..Len(allocated) : allocated[k] = NthSuffix(k)
    /\ cur_suffix = None =>
         /\ allocated[1] = <<>>
         /\ Len(allocated) = 1 + 701
         /\ Cardinality({k \in 1..Len(allocated) : Len(allocated[k]) = 1}) = 25
         /\ Cardinality({k \in 1..Len(allocated) : Len(allocated[k]) = 2}) = 676
         /\ allocated[Len(allocated)] = <<122, 122>>

\* next_suffix("zz") has returned None
C20_Witness ==
    /\ cur_suffix = None
    /\ Len(allocated) = 702
    /\ allocated[26] = <<122>> /\ allocated[27] = <<97, 97>>
    /\ allocated[702] = <<122, 122>>

\* The places k in the suffix sequence whose name is occupied in the group
\* of (DirAl, NameAl, date_string)
Occupied(date_string) ==
    {k \in 1..702 :
        os_path_join(DirAl, make_suffixed_filename(NameAl, date_string,
                                                   NthSuffix(k)))
            \in DOMAIN fs}

FileAt(date_string, k) ==
    fs[os_path_join(DirAl, make_suffixed_filename(NameAl, date_string,
                                                  NthSuffix(k)))]

\* C21 (as claimed): in a directory that started empty, after any calls of
\* the writer for one (displayName, dateString), the occupied names of that
\* group are the first ones of the suffix sequence, without a gap, and no
\* two files of the group hold the same content.
C21_ContiguousDistinctGroup ==
    \A date_string \in {Day18, Day18b} :
        (/\ seed = 0
         /\ \A i \in 1..Len(log) : log[i].call.date_string = date_string) =>
            /\ \A k \in Occupied(date_string) :
                 k = 1 \/ (k - 1) \in Occupied(date_string)
            /\ \A j, k \in Occupied(date_string) :
                 j # k => FileAt(date_string, j) # FileAt(date_string, k)

====
